---- MODULE Spec2Model ----
(***************************************************************************)
(* Verification model of                                                   *)
(*   bilby/core/sampler/pymultinest.py  (class Pymultinest)                *)
(*   peyote/likelihood.py               (classes Likelihood, LikelihoodB)  *)
(*                                                                         *)
(* Three specifications share the variables of this module:                *)
(*   Spec     one run of Pymultinest: constructor tail, run_sampler, the   *)
(*            temporary-directory protocol and the signal handler;         *)
(*   SpecCfg  the option handling of the constructor (_translate_kwargs,   *)
(*            _apply_multinest_boundaries);                                *)
(*   SpecLik  log_likelihood() of Likelihood and LikelihoodB.              *)
(***************************************************************************)
EXTENDS Integers, Sequences, FiniteSets, TLC

(* ---------------------------------------------------------------------- *)
(* Bounds                                                                  *)
(* ---------------------------------------------------------------------- *)
MaxVer == 2        \* distinct contents a file can have (0 is "no such file")
MaxWrites == 1     \* checkpoint writes of the external sampler in one run
MaxSignals == 2    \* signals delivered to the process in one run

VARIABLES
    \* ---- Pymultinest: options and attributes
    temporary_directory,             \* constructor argument
    environ,                         \* os.environ keys
    exit_code,                       \* constructor argument
    use_temporary_directory,         \* self.use_temporary_directory
    temporary_outputfiles_basename,  \* self._temporary_outputfiles_basename
    kwargs_outputfiles_basename,     \* self.kwargs["outputfiles_basename"]
    \* ---- the machine
    fs,                              \* the filesystem: path -> node
    crossDevice,                     \* temporary directory on another device
    pc,                              \* position of the main program
    hpc,                             \* position of the signal handler
    mv,                              \* position inside the move-back routine
    status,                          \* "running", "returned", "exited", "crashed"
    exitStatus,                      \* process exit status
    error,                           \* exception that ended the process
    hist,                            \* history of the run (observation only)
    \* ---- SpecCfg
    cfg,
    \* ---- SpecLik
    lik

runVars == <<temporary_directory, environ, exit_code, use_temporary_directory,
             temporary_outputfiles_basename, kwargs_outputfiles_basename,
             fs, crossDevice, pc, hpc, mv, status, exitStatus, error, hist>>
vars == <<runVars, cfg, lik>>

(* ---------------------------------------------------------------------- *)
(* Strings as sequences of characters: "MPI" in key                        *)
(* ---------------------------------------------------------------------- *)
MPI == <<"M", "P", "I">>

\* Python's `needle in key` for strings
Contains(key, needle) ==
    \E i \in 0..(Len(key) - Len(needle)) :
        \A j \in 1..Len(needle) : key[i + j] = needle[j]

PATH == <<"P", "A", "T", "H">>
OMPI_SIZE == <<"O", "M", "P", "I", "_", "S", "I", "Z", "E">>
PMI_RANK == <<"P", "M", "I", "_", "R", "A", "N", "K">>
EnvValues == { {PATH}, {PATH, OMPI_SIZE}, {PATH, PMI_RANK} }

ExitCodes == {77, 2}
Signals == {"SIGTERM", "SIGINT", "SIGALRM"}

(* ---------------------------------------------------------------------- *)
(* Filesystem                                                              *)
(* ---------------------------------------------------------------------- *)
PostFile == "post_equal_weights.dat"
\* the files of an output directory: the posterior and a checkpoint file
Files == {PostFile, "resume.dat"}
Contents == [Files -> 0..MaxVer]    \* 0: the file does not exist
Empty == [f \in Files |-> 0]

\* P: the canonical output path outdir/pm_label, T: the fresh temporary
\* directory of this run, O: the temporary directory of an earlier run
Paths == {"P", "T", "O"}

Absent == [kind |-> "absent", files |-> Empty, target |-> "none"]
Dir(c) == [kind |-> "dir", files |-> c, target |-> "none"]
Link(t) == [kind |-> "link", files |-> Empty, target |-> t]

\* path resolution follows a symbolic link
Resolve(f, p) == IF f[p].kind = "link" THEN f[p].target ELSE p
\* os.path.exists(p): follows links, False for a dangling link
Exists(f, p) == f[Resolve(f, p)].kind = "dir"
\* os.path.lexists(p)
LExists(f, p) == f[p].kind # "absent"
\* os.path.islink(p): lstat; a trailing slash makes lstat follow the link
IsLink(f, p, trailingSlash) == ~trailingSlash /\ f[p].kind = "link"
\* os.path.isdir(p)
IsDir(f, p) == Exists(f, p)
\* directory listing of p (through a link)
Listing(f, p) == f[Resolve(f, p)].files
Present(c) == {x \in Files : c[x] # 0}


(* ---------------------------------------------------------------------- *)
(* Spec: one run of Pymultinest                                            *)
(* ---------------------------------------------------------------------- *)
Running == status = "running"
\* the main program runs only while no handler has pre-empted it; a handler
\* never returns (it ends in os._exit or in an exception)
MainTurn == Running /\ hpc = "none"

Crash(e) ==
    /\ status' = "crashed"
    /\ exitStatus' = 1
    /\ error' = e

NoCrash == UNCHANGED <<status, exitStatus, error>>

\* what no step of a run changes: the options, and the state of the other
\* two specifications
Options == <<temporary_directory, environ, exit_code, crossDevice, cfg, lik>>

\* what an earlier run can have left in a directory
EarlierContents == [Files -> {0, 1}]

\* the canonical path before the run: absent, a directory, or the link an
\* interrupted run left behind (dangling, or to its temporary directory)
InitFs ==
    { [P |-> Absent, T |-> Absent, O |-> Absent] }
    \cup { [P |-> Dir(c), T |-> Absent, O |-> Absent] : c \in EarlierContents }
    \cup { [P |-> Link("O"), T |-> Absent, O |-> Absent] }
    \cup { [P |-> Link("O"), T |-> Absent, O |-> Dir(c)] : c \in EarlierContents }

InitRun ==
    /\ temporary_directory \in BOOLEAN
    /\ environ \in EnvValues
    /\ exit_code \in ExitCodes
    /\ crossDevice \in BOOLEAN
    /\ fs \in InitFs
    /\ use_temporary_directory = FALSE
    /\ temporary_outputfiles_basename = "unset"
    /\ kwargs_outputfiles_basename = "None"
    /\ pc = "new"
    /\ hpc = "none"
    /\ mv = "idle"
    /\ status = "running"
    /\ exitStatus = 0
    /\ error = "none"
    /\ hist = [init |-> fs,
               data |-> IF Exists(fs, "P") THEN Listing(fs, "P") ELSE Empty,
               writes |-> 0,
               signals |-> 0,
               sigPc |-> "none",
               sigSnap |-> Empty,
               handlerMoves |-> 0,
               cleaned |-> FALSE,
               cleanSnap |-> Empty]

\* Pymultinest.__init__, lines 90-102
using_mpi == Cardinality({key \in environ : Contains(key, MPI)})

\* the constructor without the test of the environment
init_ignoring_mpi ==
    /\ MainTurn /\ pc = "new"
    /\ use_temporary_directory' = temporary_directory
    /\ pc' = "constructed"
    /\ NoCrash
    /\ UNCHANGED <<Options, fs, temporary_outputfiles_basename,
                   kwargs_outputfiles_basename, hpc, mv, hist>>

__init__ ==
    /\ MainTurn /\ pc = "new"
    /\ use_temporary_directory' = (temporary_directory /\ ~(using_mpi # 0))
    /\ pc' = "constructed"
    /\ NoCrash
    /\ UNCHANGED <<Options, fs, temporary_outputfiles_basename,
                   kwargs_outputfiles_basename, hpc, mv, hist>>

\* run_sampler line 197: the option is popped from kwargs
_verify_kwargs_against_default_kwargs ==
    /\ MainTurn /\ pc = "constructed"
    /\ kwargs_outputfiles_basename' = "unset"
    /\ pc' = "setup"
    /\ NoCrash
    /\ UNCHANGED <<Options, fs, use_temporary_directory,
                   temporary_outputfiles_basename, hpc, mv, hist>>

\* _setup_run_directory without the temporary directory, line 248
setup_plain_mkdir ==
    /\ MainTurn /\ pc = "setup" /\ ~use_temporary_directory
    /\ IF Exists(fs, "P")
         THEN pc' = "setup_plain_kwargs" /\ NoCrash /\ UNCHANGED fs
         ELSE IF LExists(fs, "P")
                THEN Crash("FileExistsError") /\ UNCHANGED <<pc, fs>>
                ELSE /\ fs' = [fs EXCEPT !["P"] = Dir(Empty)]
                     /\ pc' = "setup_plain_kwargs"
                     /\ NoCrash
    /\ UNCHANGED <<Options, use_temporary_directory,
                   temporary_outputfiles_basename,
                   kwargs_outputfiles_basename, hpc, mv, hist>>

\* line 249
setup_plain_kwargs ==
    /\ MainTurn /\ pc = "setup_plain_kwargs"
    /\ kwargs_outputfiles_basename' = "P"
    /\ pc' = "import"
    /\ NoCrash
    /\ UNCHANGED <<Options, fs, use_temporary_directory,
                   temporary_outputfiles_basename, hpc, mv, hist>>

\* lines 233-234 and 148-152: tempfile.TemporaryDirectory().name creates a
\* directory that its finalizer removes again as soon as the unreferenced
\* object is collected, so only the name survives; the setter stores it
setup_temporary_name ==
    /\ MainTurn /\ pc = "setup" /\ use_temporary_directory
    /\ temporary_outputfiles_basename' = "T"
    /\ pc' = "setter_exists"
    /\ NoCrash
    /\ UNCHANGED <<Options, fs, use_temporary_directory,
                   kwargs_outputfiles_basename, hpc, mv, hist>>

\* lines 153-156: os.path.exists and the makedirs of shutil.copytree
setter_exists ==
    /\ MainTurn /\ pc = "setter_exists"
    /\ IF Exists(fs, "P")
         THEN IF LExists(fs, "T")
                THEN Crash("FileExistsError") /\ UNCHANGED <<pc, fs>>
                ELSE /\ fs' = [fs EXCEPT !["T"] = Dir(Empty)]
                     /\ pc' = "setter_copy"
                     /\ NoCrash
         ELSE pc' = "setup_move" /\ NoCrash /\ UNCHANGED fs
    /\ UNCHANGED <<Options, use_temporary_directory,
                   temporary_outputfiles_basename,
                   kwargs_outputfiles_basename, hpc, mv, hist>>

\* files of src that a running copytree(src, dst) has not copied yet
Uncopied(f, src, dst) ==
    {x \in Present(Listing(f, src)) : f[dst].files[x] = 0}
CopyOne(f, src, dst, x) ==
    [f EXCEPT ![dst].files[x] = Listing(f, src)[x]]
RemoveOne(f, d, x) == [f EXCEPT ![d].files[x] = 0]

\* lines 154-156: shutil.copytree copies the entries one by one
setter_copytree ==
    /\ MainTurn /\ pc = "setter_copy"
    /\ IF Uncopied(fs, "P", "T") # {}
         THEN \E x \in Uncopied(fs, "P", "T") :
                 /\ fs' = CopyOne(fs, "P", "T", x)
                 /\ UNCHANGED pc
         ELSE pc' = "setter_rm" /\ UNCHANGED fs
    /\ NoCrash
    /\ UNCHANGED <<Options, use_temporary_directory,
                   temporary_outputfiles_basename,
                   kwargs_outputfiles_basename, hpc, mv, hist>>

\* lines 157-160: outputfiles_basename ends in "/", so islink sees through
\* a link; rmtree then empties the directory the path resolves to and
\* fails on the final rmdir when the path itself is a link
setter_remove ==
    /\ MainTurn /\ pc = "setter_rm"
    /\ IF IsLink(fs, "P", TRUE)
         THEN /\ fs' = [fs EXCEPT !["P"] = Absent]
              /\ pc' = "setup_move"
              /\ NoCrash
         ELSE IF Present(Listing(fs, "P")) # {}
                THEN /\ \E x \in Present(Listing(fs, "P")) :
                            fs' = RemoveOne(fs, Resolve(fs, "P"), x)
                     /\ UNCHANGED pc
                     /\ NoCrash
                ELSE IF fs["P"].kind = "link"
                       THEN Crash("NotADirectoryError") /\ UNCHANGED <<pc, fs>>
                       ELSE /\ fs' = [fs EXCEPT !["P"] = Absent]
                            /\ pc' = "setup_move"
                            /\ NoCrash
    /\ UNCHANGED <<Options, use_temporary_directory,
                   temporary_outputfiles_basename,
                   kwargs_outputfiles_basename, hpc, mv, hist>>

\* lines 236-238: the canonical path no longer exists when the setter has
\* returned, so shutil.move is skipped (pc "moved_into_temporary" marks the
\* branch that would run it); then the temporary directory is made
setup_mkdir ==
    /\ MainTurn /\ pc = "setup_move"
    /\ IF Exists(fs, "P")
         THEN pc' = "moved_into_temporary" /\ UNCHANGED fs
         ELSE /\ pc' = "setup_symlink"
              /\ fs' = IF Exists(fs, "T") THEN fs
                       ELSE [fs EXCEPT !["T"] = Dir(Empty)]
    /\ NoCrash
    /\ UNCHANGED <<Options, use_temporary_directory,
                   temporary_outputfiles_basename,
                   kwargs_outputfiles_basename, hpc, mv, hist>>

\* lines 240-244: os.symlink fails when anything is left at the link name
setup_symlink ==
    /\ MainTurn /\ pc = "setup_symlink"
    /\ IF LExists(fs, "P")
         THEN Crash("FileExistsError") /\ UNCHANGED <<pc, fs>>
         ELSE /\ fs' = [fs EXCEPT !["P"] = Link("T")]
              /\ pc' = "setup_kwargs"
              /\ NoCrash
    /\ UNCHANGED <<Options, use_temporary_directory,
                   temporary_outputfiles_basename,
                   kwargs_outputfiles_basename, hpc, mv, hist>>

\* line 245
setup_kwargs ==
    /\ MainTurn /\ pc = "setup_kwargs"
    /\ kwargs_outputfiles_basename' = temporary_outputfiles_basename
    /\ pc' = "import"
    /\ NoCrash
    /\ UNCHANGED <<Options, fs, use_temporary_directory,
                   temporary_outputfiles_basename, hpc, mv, hist>>

\* lines 202-203
import_pymultinest_run ==
    /\ MainTurn /\ pc = "import"
    /\ pc' = "solve"
    /\ NoCrash
    /\ UNCHANGED <<Options, fs, use_temporary_directory,
                   temporary_outputfiles_basename,
                   kwargs_outputfiles_basename, hpc, mv, hist>>

\* lines 205-210: the external sampler writes its files under
\* kwargs["outputfiles_basename"]
SamplerDir == Resolve(fs, kwargs_outputfiles_basename)

solve_write ==
    /\ MainTurn /\ pc = "solve"
    /\ hist.writes < MaxWrites
    /\ \E x \in Files, v \in 1..MaxVer :
          /\ fs' = [fs EXCEPT ![SamplerDir].files[x] = v]
          /\ hist' = [hist EXCEPT !.writes = @ + 1, !.data[x] = v]
    /\ NoCrash
    /\ UNCHANGED <<Options, use_temporary_directory,
                   temporary_outputfiles_basename,
                   kwargs_outputfiles_basename, pc, hpc, mv>>

\* the sampler returns; it has written post_equal_weights.dat unless the
\* user switched its output off (write_output=False, v = 0)
solve_return ==
    /\ MainTurn /\ pc = "solve"
    /\ \E v \in 0..MaxVer :
          IF v = 0
            THEN UNCHANGED <<fs, hist>>
            ELSE /\ fs' = [fs EXCEPT ![SamplerDir].files[PostFile] = v]
                 /\ hist' = [hist EXCEPT !.writes = @ + 1,
                                         !.data[PostFile] = v]
    /\ pc' = "cleanup"
    /\ NoCrash
    /\ UNCHANGED <<Options, use_temporary_directory,
                   temporary_outputfiles_basename,
                   kwargs_outputfiles_basename, hpc, mv>>


(* ---------------------------------------------------------------------- *)
(* _move_temporary_directory_to_proper_path, run by _clean_up_run_directory*)
(* in the main program and by write_current_state_and_exit in the handler  *)
(* ---------------------------------------------------------------------- *)
MoveTurn ==
    /\ Running
    /\ \/ hpc = "none" /\ pc = "cleanup_move"
       \/ hpc = "moving"

MoveFrame == <<Options, use_temporary_directory,
               temporary_outputfiles_basename,
               kwargs_outputfiles_basename, pc, hpc, hist>>

\* lines 179-191: the log message reads both attributes; the path is
\* stripped of its "/" so islink sees the link itself
move_check ==
    /\ MoveTurn /\ mv = "check"
    /\ IF temporary_outputfiles_basename = "unset"
         THEN Crash("AttributeError") /\ UNCHANGED <<fs, mv>>
         ELSE /\ NoCrash
              /\ IF IsLink(fs, "P", FALSE)
                   THEN fs' = [fs EXCEPT !["P"] = Absent] /\ mv' = "move"
                   ELSE IF IsDir(fs, "P")
                          THEN mv' = "rmtree" /\ UNCHANGED fs
                          ELSE mv' = "move" /\ UNCHANGED fs
    /\ UNCHANGED MoveFrame

\* line 191: shutil.rmtree removes the entries one by one, then the directory
move_rmtree ==
    /\ MoveTurn /\ mv = "rmtree"
    /\ IF Present(fs["P"].files) # {}
         THEN /\ \E x \in Present(fs["P"].files) : fs' = RemoveOne(fs, "P", x)
              /\ UNCHANGED mv
         ELSE /\ fs' = [fs EXCEPT !["P"] = Absent]
              /\ mv' = "move"
    /\ NoCrash
    /\ UNCHANGED MoveFrame

\* shutil.copytree in the place of shutil.move: the source stays
move_move_copy ==
    /\ MoveTurn /\ mv = "move"
    /\ IF ~Exists(fs, temporary_outputfiles_basename)
         THEN Crash("FileNotFoundError") /\ UNCHANGED <<fs, mv>>
         ELSE /\ NoCrash
              /\ fs' = [fs EXCEPT !["P"] = fs[temporary_outputfiles_basename]]
              /\ mv' = "done"
    /\ UNCHANGED MoveFrame

\* line 192: shutil.move is os.rename on one device; across devices it is
\* copytree followed by rmtree of the source
move_move ==
    /\ MoveTurn /\ mv = "move"
    /\ IF ~Exists(fs, temporary_outputfiles_basename)
         THEN Crash("FileNotFoundError") /\ UNCHANGED <<fs, mv>>
         ELSE /\ NoCrash
              /\ IF ~crossDevice
                   THEN /\ fs' = [fs EXCEPT
                                    !["P"] = fs[temporary_outputfiles_basename],
                                    ![temporary_outputfiles_basename] = Absent]
                        /\ mv' = "done"
                   ELSE /\ fs' = [fs EXCEPT !["P"] = Dir(Empty)]
                        /\ mv' = "copy"
    /\ UNCHANGED MoveFrame

move_copytree ==
    /\ MoveTurn /\ mv = "copy"
    /\ IF Uncopied(fs, temporary_outputfiles_basename, "P") # {}
         THEN /\ \E x \in Uncopied(fs, temporary_outputfiles_basename, "P") :
                    fs' = CopyOne(fs, temporary_outputfiles_basename, "P", x)
              /\ UNCHANGED mv
         ELSE mv' = "rmsrc" /\ UNCHANGED fs
    /\ NoCrash
    /\ UNCHANGED MoveFrame

move_rmtree_source ==
    /\ MoveTurn /\ mv = "rmsrc"
    /\ LET t == temporary_outputfiles_basename IN
       IF Present(fs[t].files) # {}
         THEN /\ \E x \in Present(fs[t].files) : fs' = RemoveOne(fs, t, x)
              /\ UNCHANGED mv
         ELSE /\ fs' = [fs EXCEPT ![t] = Absent]
              /\ mv' = "done"
    /\ NoCrash
    /\ UNCHANGED MoveFrame

(* ---------------------------------------------------------------------- *)
(* run_sampler after the sampler has returned                              *)
(* ---------------------------------------------------------------------- *)
\* lines 252-254
_clean_up_run_directory ==
    /\ MainTurn /\ pc = "cleanup"
    /\ IF use_temporary_directory
         THEN pc' = "cleanup_move" /\ mv' = "check"
         ELSE pc' = "load" /\ UNCHANGED mv
    /\ NoCrash
    /\ UNCHANGED <<Options, fs, use_temporary_directory,
                   temporary_outputfiles_basename,
                   kwargs_outputfiles_basename, hpc, hist>>

\* line 255
clean_up_kwargs ==
    /\ MainTurn /\ pc = "cleanup_move" /\ mv = "done"
    /\ kwargs_outputfiles_basename' = "P"
    /\ pc' = "load"
    /\ mv' = "idle"
    /\ hist' = [hist EXCEPT !.cleaned = TRUE, !.cleanSnap = fs["P"].files]
    /\ NoCrash
    /\ UNCHANGED <<Options, fs, use_temporary_directory,
                   temporary_outputfiles_basename, hpc>>

\* lines 214-225: np.loadtxt of post_equal_weights.dat, then the result
load_posterior ==
    /\ MainTurn /\ pc = "load"
    /\ IF Exists(fs, "P") /\ Listing(fs, "P")[PostFile] # 0
         THEN /\ pc' = "returned"
              /\ status' = "returned"
              /\ UNCHANGED <<exitStatus, error>>
         ELSE Crash("OSError") /\ UNCHANGED pc
    /\ UNCHANGED <<Options, fs, use_temporary_directory,
                   temporary_outputfiles_basename,
                   kwargs_outputfiles_basename, hpc, mv, hist>>

(* ---------------------------------------------------------------------- *)
(* Signals: write_current_state_and_exit is installed for SIGTERM, SIGINT  *)
(* and SIGALRM at the end of the constructor (lines 100-102). Python runs  *)
(* the handler between two bytecodes of whatever is executing, another     *)
(* handler included: nothing masks signals while a handler runs.           *)
(* ---------------------------------------------------------------------- *)
signal_delivery ==
    /\ Running /\ pc # "new"
    /\ hist.signals < MaxSignals
    /\ \E signum \in Signals :
          /\ hpc' = "entered"
          /\ hist' = [hist EXCEPT
                        !.signals = @ + 1,
                        !.sigPc = IF hist.signals = 0 THEN pc ELSE @,
                        !.sigSnap = IF hist.signals = 0
                                      THEN fs["T"].files ELSE @]
    /\ NoCrash
    /\ UNCHANGED <<Options, fs, use_temporary_directory,
                   temporary_outputfiles_basename,
                   kwargs_outputfiles_basename, pc, mv>>

\* lines 169-170
write_current_state_and_exit ==
    /\ Running /\ hpc = "entered"
    /\ IF use_temporary_directory
         THEN /\ hpc' = "moving"
              /\ mv' = "check"
              /\ hist' = [hist EXCEPT !.handlerMoves = @ + 1]
         ELSE /\ hpc' = "exit"
              /\ UNCHANGED <<mv, hist>>
    /\ NoCrash
    /\ UNCHANGED <<Options, fs, use_temporary_directory,
                   temporary_outputfiles_basename,
                   kwargs_outputfiles_basename, pc>>

\* line 171: os._exit(self.exit_code)
os_exit ==
    /\ Running
    /\ \/ hpc = "exit"
       \/ hpc = "moving" /\ mv = "done"
    /\ status' = "exited"
    /\ exitStatus' = exit_code
    /\ UNCHANGED <<Options, fs, use_temporary_directory,
                   temporary_outputfiles_basename,
                   kwargs_outputfiles_basename, pc, hpc, mv, error, hist>>

Next ==
    \/ __init__
    \/ _verify_kwargs_against_default_kwargs
    \/ setup_plain_mkdir
    \/ setup_plain_kwargs
    \/ setup_temporary_name
    \/ setter_exists
    \/ setter_copytree
    \/ setter_remove
    \/ setup_mkdir
    \/ setup_symlink
    \/ setup_kwargs
    \/ import_pymultinest_run
    \/ solve_write
    \/ solve_return
    \/ _clean_up_run_directory
    \/ move_check
    \/ move_rmtree
    \/ move_move
    \/ move_copytree
    \/ move_rmtree_source
    \/ clean_up_kwargs
    \/ load_posterior
    \/ signal_delivery
    \/ write_current_state_and_exit
    \/ os_exit

Init == InitRun /\ cfg = "idle" /\ lik = "idle"

Spec == Init /\ [][Next]_vars

Ended == status # "running"


(* ---------------------------------------------------------------------- *)
(* Properties of Spec                                                      *)
(* ---------------------------------------------------------------------- *)
\* contents seen at the canonical path before the run (nothing when the
\* path was absent or a dangling link)
InitContents ==
    IF Exists(hist.init, "P") THEN Listing(hist.init, "P") ELSE Empty

\* path p holds every file of the latest checkpoint data
HasCopy(p) ==
    \A x \in Present(hist.data) :
        Exists(fs, p) /\ Listing(fs, p)[x] = hist.data[x]

\* what the actions take for granted: line 237 (shutil.move into the
\* temporary directory) never runs, and shutil.move of line 192 never finds
\* anything left at the canonical path
SkippedBranches ==
    /\ pc # "moved_into_temporary"
    /\ (MoveTurn /\ mv = "move") => ~LExists(fs, "P")
    /\ (MoveTurn /\ mv = "rmtree") => fs["P"].kind = "dir"

\* C1: with the temporary directory in use, no signal and no sampler write,
\* a run that has ended (the swap and the move-back have run) leaves the
\* canonical path a real directory with its initial contents, no link and
\* no temporary directory, whatever the canonical path was initially
C1_RoundTrip ==
    (use_temporary_directory /\ Ended /\ hist.signals = 0 /\ hist.writes = 0)
        => /\ fs["P"] = Dir(InitContents)
           /\ fs["T"] = Absent

C3_OneCheckpointAndExit ==
    (Ended /\ hist.signals >= 1)
        => /\ status = "exited"
           /\ exitStatus = exit_code
           /\ hist.handlerMoves = (IF use_temporary_directory THEN 1 ELSE 0)

\* C4: the temporary directory is in use exactly when the option is on and
\* no environment key contains "MPI"; when it is not in use no temporary
\* directory and no new link ever appears, the sampler's
\* outputfiles_basename is the canonical path, and neither
\* _clean_up_run_directory nor the handler changes the filesystem
C4_State ==
    pc # "new" =>
        /\ use_temporary_directory <=>
              (temporary_directory /\ \A key \in environ : ~Contains(key, MPI))
        /\ ~use_temporary_directory =>
              /\ fs["T"] = Absent
              /\ temporary_outputfiles_basename = "unset"
              /\ fs["P"].kind = "link" => hist.init["P"].kind = "link"
              /\ kwargs_outputfiles_basename \in {"None", "unset", "P"}
              /\ pc \in {"import", "solve", "cleanup", "load", "returned"}
                    => kwargs_outputfiles_basename = "P"

C4_Step ==
    (~use_temporary_directory /\ pc # "new"
        /\ (hpc # "none" \/ pc = "cleanup")) => fs' = fs

C4_ProtocolNotInUse == [] C4_State /\ [][C4_Step]_vars

C4_Witness ==
    /\ temporary_directory /\ ~use_temporary_directory
    /\ status = "exited" /\ hist.sigPc = "solve" /\ hist.writes >= 1
    /\ kwargs_outputfiles_basename = "P"
    /\ fs["P"] = Dir(hist.data)

\* C8: once _clean_up_run_directory has moved the temporary directory back,
\* a further move-back (the handler firing while run_sampler loads the
\* posterior file) leaves the canonical directory as the first one left it
\* and raises no error
C8_MoveBackIdempotent ==
    hist.cleaned
        => /\ fs["P"] = Dir(hist.cleanSnap)
           /\ error \notin {"FileNotFoundError", "AttributeError"}

\* C10: with the temporary directory in use, every state from the
\* installation of the handlers on holds a complete copy of the latest
\* checkpoint files at the canonical path or at the temporary path
C10_NoCheckpointLoss ==
    (use_temporary_directory /\ pc # "new")
        => (HasCopy("P") \/ HasCopy("T"))


(* ---------------------------------------------------------------------- *)
(* SpecCfg: option handling of the constructor                             *)
(* ---------------------------------------------------------------------- *)
MaxDim == 2        \* number of prior dimensions

\* the run state is not used by SpecCfg and SpecLik
IdleRun ==
    /\ temporary_directory = FALSE
    /\ environ = {}
    /\ exit_code = 77
    /\ crossDevice = FALSE
    /\ fs = [P |-> Absent, T |-> Absent, O |-> Absent]
    /\ use_temporary_directory = FALSE
    /\ temporary_outputfiles_basename = "unset"
    /\ kwargs_outputfiles_basename = "None"
    /\ pc = "idle"
    /\ hpc = "none"
    /\ mv = "idle"
    /\ status = "idle"
    /\ exitStatus = 0
    /\ error = "none"
    /\ hist = "idle"

\* the live-point keys of the class docstring (lines 26-28), in the order
\* the loop of _translate_kwargs visits them
npoints_equiv_kwargs == <<"npoints", "nlive", "nlives", "n_live_points">>
LiveKeys == {npoints_equiv_kwargs[i] : i \in DOMAIN npoints_equiv_kwargs}
NPointValues == {100, 200}
\* a dict of live-point options: key -> value, 0 when the key is not in it
LiveKwargs == [LiveKeys -> NPointValues \cup {0}]
HasKey(kw, k) == kw[k] # 0

Boundaries == {"periodic", "reflective", "None"}
PriorLists == UNION {[1..n -> Boundaries] : n \in 0..MaxDim}
UserWrapped == {"None", <<>>, <<0>>, <<1, 0>>}

InitCfg ==
    /\ IdleRun
    /\ lik = "idle"
    /\ \E kw \in LiveKwargs, pr \in PriorLists, w \in UserWrapped :
          cfg = [pc |-> "new",
                 user |-> kw,
                 userWrapped |-> w,
                 priors |-> pr,
                 kwargs |-> kw,
                 wrapped_params |-> w]

\* kwargs["n_live_points"] = kwargs.pop(equiv), line 108
PopInto(kw, equiv) ==
    LET v == kw[equiv]
    IN  [[kw EXCEPT ![equiv] = 0] EXCEPT !["n_live_points"] = v]

\* the loop of lines 106-108 from position i on
RECURSIVE TranslateFrom(_, _)
TranslateFrom(kw, i) ==
    IF i > Len(npoints_equiv_kwargs)
      THEN kw
      ELSE LET equiv == npoints_equiv_kwargs[i]
           IN  IF HasKey(kw, equiv)
                 THEN TranslateFrom(PopInto(kw, equiv), i + 1)
                 ELSE TranslateFrom(kw, i + 1)

\* lines 104-108
translate(kw) ==
    IF ~HasKey(kw, "n_live_points") THEN TranslateFrom(kw, 1) ELSE kw

_translate_kwargs ==
    /\ cfg.pc = "new"
    /\ cfg' = [cfg EXCEPT !.pc = "translated", !.kwargs = translate(cfg.kwargs)]
    /\ UNCHANGED <<runVars, lik>>

\* the two flags exchanged
wrapped_params_swapped(priors) ==
    [i \in 1..Len(priors) |-> IF priors[i] = "periodic" THEN 0 ELSE 1]

\* lines 122-127: one flag per prior, in iteration order
wrapped_params_of(priors) ==
    [i \in 1..Len(priors) |-> IF priors[i] = "periodic" THEN 1 ELSE 0]

\* lines 120-127
_apply_multinest_boundaries ==
    /\ cfg.pc = "translated"
    /\ cfg' = [cfg EXCEPT
                 !.pc = "constructed",
                 !.wrapped_params = IF cfg.wrapped_params = "None"
                                      THEN wrapped_params_of(cfg.priors)
                                      ELSE @]
    /\ UNCHANGED <<runVars, lik>>

NextCfg == _translate_kwargs \/ _apply_multinest_boundaries

SpecCfg == InitCfg /\ [][NextCfg]_vars

\* C5: whatever live-point keys the user gave (at least one), after
\* _translate_kwargs the value is under n_live_points and no other
\* live-point key remains
C5_OneCanonicalKey ==
    (cfg.pc # "new" /\ \E k \in LiveKeys : HasKey(cfg.user, k))
        => /\ HasKey(cfg.kwargs, "n_live_points")
           /\ \A k \in LiveKeys \ {"n_live_points"} : ~HasKey(cfg.kwargs, k)

\* C6 as stated: after construction wrapped_params has one entry per prior,
\* in order, 1 for a periodic boundary and 0 otherwise
C6_WrapFlags ==
    cfg.pc = "constructed"
        => /\ Len(cfg.wrapped_params) = Len(cfg.priors)
           /\ \A i \in 1..Len(cfg.priors) :
                 cfg.wrapped_params[i] = 1 <=> cfg.priors[i] = "periodic"
           /\ \A i \in 1..Len(cfg.priors) : cfg.wrapped_params[i] \in {0, 1}

\* C6 amended: the flags are derived when the user gave no wrapped_params;
\* a list the user gave is passed on as it is
C6_WrapFlagsWhenNotGiven ==
    cfg.pc = "constructed"
        => IF cfg.userWrapped = "None"
             THEN /\ Len(cfg.wrapped_params) = Len(cfg.priors)
                  /\ \A i \in 1..Len(cfg.priors) :
                        /\ cfg.wrapped_params[i] \in {0, 1}
                        /\ cfg.wrapped_params[i] = 1
                              <=> cfg.priors[i] = "periodic"
             ELSE cfg.wrapped_params = cfg.userWrapped

C6_Witness ==
    /\ cfg.pc = "constructed" /\ cfg.userWrapped = "None"
    /\ Len(cfg.priors) >= 2
    /\ cfg.priors[1] = "reflective" /\ cfg.priors[2] = "periodic"
    /\ cfg.wrapped_params[1] = 0 /\ cfg.wrapped_params[2] = 1


(* ---------------------------------------------------------------------- *)
(* SpecLik: Likelihood.log_likelihood and LikelihoodB.log_likelihood       *)
(*                                                                         *)
(* A complex number is a pair <<re, im>> of integers, an array a sequence  *)
(* over the frequency bins.  Time delays are counted in quarter periods of *)
(* the unit frequency, so that exp(-1j * 2 * pi * dt * f) is a power of    *)
(* -1j.  A log-likelihood is an exact fraction num / den.                  *)
(* ---------------------------------------------------------------------- *)
MaxIfo == 2        \* interferometers in the list
MaxCalls == 2      \* consecutive log_likelihood() calls

Modes == <<"plus", "cross">>
frequency_array == <<1, 2>>
Bins == DOMAIN frequency_array

CAdd(a, b) == <<a[1] + b[1], a[2] + b[2]>>
CSub(a, b) == <<a[1] - b[1], a[2] - b[2]>>
CMul(a, b) == <<a[1] * b[1] - a[2] * b[2], a[1] * b[2] + a[2] * b[1]>>
CConj(a) == <<a[1], -a[2]>>
CReal(a) == a[1]
CScale(r, a) == <<r * a[1], r * a[2]>>
CZero == <<0, 0>>

\* (-1j) ** n
RECURSIVE MinusIPow(_)
MinusIPow(n) == IF n = 0 THEN <<1, 0>> ELSE CMul(<<0, -1>>, MinusIPow(n - 1))

RECURSIVE CSum(_, _)
\* sum of the complex sequence a from index i on
CSum(a, i) == IF i > Len(a) THEN CZero ELSE CAdd(a[i], CSum(a, i + 1))

\* np.vdot(a, b): the first argument is conjugated
np_dot(a, b) == CSum([k \in Bins |-> CMul(a[k], b[k])], 1)

np_vdot(a, b) == CSum([k \in Bins |-> CMul(CConj(a[k]), b[k])], 1)

\* input sets
StrainValues ==
    { [plus |-> <<<<1, 0>>, <<0, 1>>>>, cross |-> <<<<0, 1>>, <<1, 0>>>>],
      [plus |-> <<<<0, 1>>, <<1, 1>>>>, cross |-> <<<<1, 0>>, <<0, 0>>>>] }
ResponseValues == { [plus |-> 2, cross |-> 1], [plus |-> 1, cross |-> 2] }
ShiftValues == {0, 1}
NoiseValues == { <<CZero, CZero>>, <<<<0, 1>>, <<1, 0>>>> }
\* power spectral density arrays; the amplitude spectral density is the root
PsdValues == { <<1, 1>>, <<4, 1>> }
\* the noise realisations with their spectral densities: no noise under a
\* flat density, noise under a coloured one
NoisePsdValues ==
    { nv \in NoiseValues \X PsdValues :
         nv[1] = <<CZero, CZero>> <=> nv[2] = <<1, 1>> }
Sqrt(n) == CHOOSE r \in 0..n : r * r = n
\* common denominator of the divisions by the power spectral density: the
\* least common multiple of its values
PsdScale ==
    LET vals == {a[k] : a \in PsdValues, k \in Bins}
        Common(m) == \A v \in vals : m % v = 0
    IN  CHOOSE m \in 1..16 : Common(m) /\ \A l \in 1..(m - 1) : ~Common(l)
RateValues == { [time_duration |-> 1, sampling_frequency |-> 2],
                [time_duration |-> 2, sampling_frequency |-> 1] }

\* antenna_response(ra, dec, geocent_time, psi, mode) of an interferometer
antenna_response(ifo, mode) == ifo.response[mode]

\* Likelihood.get_interferometer_signal, lines 9-24
get_interferometer_signal(waveform_polarizations, ifo) ==
    LET h == [m \in DOMAIN Modes |->
                 [k \in Bins |->
                     CScale(antenna_response(ifo, Modes[m]),
                            waveform_polarizations[Modes[m]][k])]]
        signal == [k \in Bins |-> CSum([m \in DOMAIN Modes |-> h[m][k]], 1)]
    IN  [k \in Bins |->
            CMul(signal[k], MinusIPow(ifo.time_shift * frequency_array[k]))]

Residual(ifo, signal) == [k \in Bins |-> CSub(ifo.data[k], signal[k])]

\* np.dot in the place of np.vdot
log_likelihood_interferometer_dot(waveform_polarizations, ifo) ==
    LET r == Residual(ifo, get_interferometer_signal(waveform_polarizations, ifo))
        weighted == [k \in Bins |->
                        CScale(PsdScale \div ifo.power_spectral_density_array[k],
                               r[k])]
    IN  CReal(CScale(-4, np_dot(r, weighted)))

\* Likelihood.log_likelihood_interferometer, lines 33-39, as the numerator
\* over the denominator time_duration * PsdScale
log_likelihood_interferometer(waveform_polarizations, ifo) ==
    LET r == Residual(ifo, get_interferometer_signal(waveform_polarizations, ifo))
        weighted == [k \in Bins |->
                        CScale(PsdScale \div ifo.power_spectral_density_array[k],
                               r[k])]
    IN  CReal(CScale(-4, np_vdot(r, weighted)))

RECURSIVE SumInterferometers(_, _, _)
\* the loop of lines 29-30 from interferometer i on
SumInterferometers(waveform_polarizations, ifos, i) ==
    IF i > Len(ifos)
      THEN 0
      ELSE log_likelihood_interferometer(waveform_polarizations, ifos[i])
           + SumInterferometers(waveform_polarizations, ifos, i + 1)

\* LikelihoodB.log_likelihood, lines 56-62: the mapping is multiplied in place
ScalePolarizations(wp, ifo) ==
    [mode \in DOMAIN wp |->
        [k \in Bins |-> CScale(antenna_response(ifo, mode), wp[mode][k])]]

\* lines 64-75 for one interferometer, given the mapping as it is after the
\* in-place multiplication: numerator over the denominator PsdScale
ContributionB(wp, ifo, sampling_frequency) ==
    LET signal_ifo == [k \in Bins |->
                         CMul(CSum([m \in DOMAIN Modes |-> wp[Modes[m]][k]], 1),
                              MinusIPow(ifo.time_shift))]
        asd == [k \in Bins |-> Sqrt(ifo.power_spectral_density_array[k])]
        \* (whitened_data - signal_ifo / asd) ** 2 * PsdScale
        sq == [k \in Bins |->
                  LET d == CSub(CScale(asd[k], ifo.data[k]), signal_ifo[k])
                  IN  CScale(PsdScale \div (asd[k] * asd[k]), CMul(d, d))]
    IN  4 * sampling_frequency * CReal(CSum(sq, 1))

RECURSIVE LoopB(_, _, _, _, _)
\* the loop of lines 55-75 from interferometer i on: the result and the
\* mapping as the loop leaves it
LoopB(wp, ifos, i, fsamp, log_l) ==
    IF i > Len(ifos)
      THEN [log_l |-> log_l, waveform_polarizations |-> wp]
      ELSE LET scaled == ScalePolarizations(wp, ifos[i])
           IN  LoopB(scaled, ifos, i + 1, fsamp,
                     log_l - ContributionB(scaled, ifos[i], fsamp))

IfoValues ==
    { [response |-> r, time_shift |-> t, noise |-> nv[1],
       power_spectral_density_array |-> nv[2]] :
          r \in ResponseValues, t \in ShiftValues, nv \in NoisePsdValues }

\* the evaluator, and whether the source hands out its own mapping or a
\* fresh one at every frequency_domain_strain() (Likelihood only reads it)
EvaluatorValues ==
    { [kind |-> "Likelihood", cached |-> TRUE],
      [kind |-> "LikelihoodB", cached |-> TRUE],
      [kind |-> "LikelihoodB", cached |-> FALSE] }

\* the interferometer with data = projected signal + noise
WithData(strain, v) ==
    LET proj == get_interferometer_signal(strain,
                    [response |-> v.response, time_shift |-> v.time_shift])
    IN  [response |-> v.response,
         time_shift |-> v.time_shift,
         noise |-> v.noise,
         power_spectral_density_array |-> v.power_spectral_density_array,
         data |-> [k \in Bins |-> CAdd(proj[k], v.noise[k])]]

InitLik ==
    /\ IdleRun
    /\ cfg = "idle"
    /\ \E ev \in EvaluatorValues,
          strain \in StrainValues,
          rate \in RateValues,
          n \in 1..MaxIfo :
          \E vs \in [1..n -> IfoValues] :
             lik = [kind |-> ev.kind,
                    source |-> rate,
                    \* the polarizations of the current model parameters
                    model |-> strain,
                    \* what frequency_domain_strain() hands out: the
                    \* source's own mapping when it caches it
                    strain |-> strain,
                    cached |-> ev.cached,
                    interferometers |-> [i \in 1..n |-> WithData(strain, vs[i])],
                    calls |-> 0,
                    last |-> [num |-> 0, den |-> 1],
                    prev |-> [num |-> 0, den |-> 1]]

\* Likelihood.log_likelihood, lines 26-31
Likelihood_log_likelihood ==
    /\ lik.kind = "Likelihood"
    /\ lik.calls < MaxCalls
    /\ LET waveform_polarizations == lik.strain
           log_l == SumInterferometers(waveform_polarizations,
                                       lik.interferometers, 1)
       IN  lik' = [lik EXCEPT
                     !.calls = @ + 1,
                     !.prev = lik.last,
                     !.last = [num |-> log_l,
                               den |-> lik.source.time_duration * PsdScale]]
    /\ UNCHANGED <<runVars, cfg>>

\* LikelihoodB.log_likelihood, lines 52-77
LikelihoodB_log_likelihood ==
    /\ lik.kind = "LikelihoodB"
    /\ lik.calls < MaxCalls
    /\ LET out == LoopB(lik.strain, lik.interferometers, 1,
                        lik.source.sampling_frequency, 0)
       IN  lik' = [lik EXCEPT
                     !.calls = @ + 1,
                     !.prev = lik.last,
                     !.last = [num |-> out.log_l, den |-> PsdScale],
                     !.strain = IF lik.cached
                                  THEN out.waveform_polarizations
                                  ELSE lik.model]
    /\ UNCHANGED <<runVars, cfg>>

NextLik == Likelihood_log_likelihood \/ LikelihoodB_log_likelihood

SpecLik == InitLik /\ [][NextLik]_vars


(* ---------------------------------------------------------------------- *)
(* Properties of SpecLik                                                   *)
(* ---------------------------------------------------------------------- *)
RECURSIVE IntSum(_, _)
IntSum(a, i) == IF i > Len(a) THEN 0 ELSE a[i] + IntSum(a, i + 1)

\* squared modulus of a complex number
Modulus2(c) == c[1] * c[1] + c[2] * c[2]

\* -4 * sum over the bins of |data - signal|^2 / psd, times PsdScale
WeightedResidual(wp, ifo) ==
    LET signal == get_interferometer_signal(wp, ifo)
    IN  IntSum([k \in Bins |->
                  (-4) * Modulus2(CSub(ifo.data[k], signal[k]))
                       * (PsdScale \div ifo.power_spectral_density_array[k])], 1)

ZeroResidual(ifo) == ifo.data = get_interferometer_signal(lik.model, ifo)

\* C7: the value of Likelihood.log_likelihood() is the sum over the
\* interferometers of -4/T times the PSD-weighted squared modulus of the
\* residual; it is never positive, and it is 0 when every interferometer's
\* data equals the projected signal
C7_LogLikelihoodMaximum ==
    (lik.kind = "Likelihood" /\ lik.calls >= 1)
        => /\ lik.last.den = lik.source.time_duration * PsdScale
           /\ lik.last.den > 0
           /\ lik.last.num =
                 IntSum([i \in DOMAIN lik.interferometers |->
                           WeightedResidual(lik.model, lik.interferometers[i])], 1)
           /\ lik.last.num <= 0
           /\ (\A i \in DOMAIN lik.interferometers :
                  ZeroResidual(lik.interferometers[i])) => lik.last.num = 0

C7_Witness ==
    /\ lik.kind = "Likelihood" /\ lik.calls >= 1
    /\ Len(lik.interferometers) >= 2
    /\ \A i \in DOMAIN lik.interferometers : ZeroResidual(lik.interferometers[i])
    /\ lik.interferometers[1].time_shift = 1
    /\ \E k \in Bins : lik.interferometers[1].data[k] # CZero
    /\ lik.last.num = 0

\* the projection of the model's own polarizations on one interferometer
ReferenceNum ==
    IF lik.kind = "Likelihood"
      THEN IntSum([i \in DOMAIN lik.interferometers |->
                     WeightedResidual(lik.model, lik.interferometers[i])], 1)
      ELSE IntSum([i \in DOMAIN lik.interferometers |->
                     - ContributionB(
                           ScalePolarizations(lik.model, lik.interferometers[i]),
                           lik.interferometers[i],
                           lik.source.sampling_frequency)], 1)

\* C9: in both evaluators every detector's projected signal is built from
\* the model's original polarizations and that detector's own antenna
\* response, so the value of a call is the sum of the detectors' own
\* contributions, and two consecutive calls return the same value
C9_NoContamination ==
    lik.calls >= 1
        => /\ lik.last.num = ReferenceNum
           /\ lik.calls >= 2 => lik.last = lik.prev

====
